---- MODULE Spec2Model ----
(***************************************************************************)
(* A model of climp: the incremental argument tokenizer (ArgParser), the   *)
(* value cell (Box) and the bindings (Arg) driven by CLI.                  *)
(*                                                                         *)
(* Strings are sequences of one-character strings.  A JavaScript value     *)
(* that may be undefined is a record [def, s]: Undefined, or Str(s).       *)
(***************************************************************************)
EXTENDS Integers, Sequences, FiniteSets, TLC

\* The raw arguments the parser reads hold at most this many characters in all.
MaxChars == 5

\* The advancing operations are offered while the cursor index is below this.
MaxIndex == 2

\* updateContent is offered while the number a Box holds is below this.
MaxCount == 2

\* mutateContent is offered while the list a Box holds is shorter than this.
MaxList == 1

\* A parse pass dispatches while fewer deferred tasks than this are registered.
MaxTasks == 2

\* The characters raw arguments are made of: the dash, the equals sign, a letter.
Chars == {"-", "=", "a"}

(***************************************************************************)
(* JavaScript values and string primitives                                 *)
(***************************************************************************)
Undefined == [def |-> FALSE, s |-> <<>>]

Str(s) == [def |-> TRUE, s |-> s]

\* String(undefined), as string concatenation coerces it.
UndefinedText == <<"u", "n", "d", "e", "f", "i", "n", "e", "d">>

\* The string a value contributes to a concatenation.
ToText(v) == IF v.def THEN v.s ELSE UndefinedText

\* s[0]: the first character, undefined for the empty string.
CharAt0(s) == IF Len(s) > 0 THEN Str(<<s[1]>>) ELSE Undefined

\* s.slice(k)
Slice(s, k) == SubSeq(s, k + 1, Len(s))

\* s.slice(0, k)
SliceTo(s, k) == SubSeq(s, 1, k)

\* s.startsWith(pre)
StartsWith(s, pre) == Len(s) >= Len(pre) /\ SubSeq(s, 1, Len(pre)) = pre

\* s.indexOf(c): the 0-based index of the first c, or -1.
IndexOf(s, c) ==
  IF \E k \in 1..Len(s) : s[k] = c
  THEN (CHOOSE k \in 1..Len(s) : s[k] = c /\ \A j \in 1..(k - 1) : s[j] # c) - 1
  ELSE -1

Dash == <<"-">>

DashDash == <<"-", "-">>

Eq == <<"=">>

(***************************************************************************)
(* ArgParser.  A parser is the record of the object's fields; `ahead` is   *)
(* the part of this.argv after index i, which the parser reads strictly    *)
(* from left to right, each element once.                                  *)
(***************************************************************************)
\* this.argv[++this.i] is ArgAt(ahead) with the cursor moved by Advance.
ArgAt(ahead) == IF Len(ahead) > 0 THEN Str(ahead[1]) ELSE Undefined

Rest(ahead) == IF Len(ahead) > 0 THEN Tail(ahead) ELSE <<>>

\* A _clearBuffer() that leaves the state and the buffer as they are.
clearBufferKeeps(p) == p

clearBuffer(p) == [p EXCEPT !.state = "default", !.buffer = <<>>]

\* handleDash with the "=" left in front of the value.
handleDashKeepsEq(p) ==
  IF CharAt0(p.buffer) = Str(Eq)
  THEN clearBuffer([p EXCEPT !.isFlag = FALSE, !.isValue = TRUE,
                             !.current = Str(p.buffer)])
  ELSE LET q == [p EXCEPT !.current = Str(Dash \o ToText(CharAt0(p.buffer)))]
       IN  IF Len(q.buffer) > 1
           THEN [q EXCEPT !.buffer = Slice(q.buffer, 1)]
           ELSE clearBuffer(q)

handleDash(p) ==
  IF CharAt0(p.buffer) = Str(Eq)
  THEN clearBuffer([p EXCEPT !.isFlag = FALSE, !.isValue = TRUE,
                             !.current = Str(Slice(p.buffer, 1))])
  ELSE LET q == [p EXCEPT !.current = Str(Dash \o ToText(CharAt0(p.buffer)))]
       IN  IF Len(q.buffer) > 1
           THEN [q EXCEPT !.buffer = Slice(q.buffer, 1)]
           ELSE clearBuffer(q)

RECURSIVE process(_, _, _)
RECURSIVE next(_, _)

\* The `value` case of next() without the reset of isFlag.
nextStagedKeepsFlag(p) ==
  clearBuffer([p EXCEPT !.isValue = TRUE, !.current = Str(p.buffer)])

\* The `value` case of next(): the staged value becomes the current token.
nextStaged(p) ==
  clearBuffer([p EXCEPT !.isFlag = FALSE, !.isValue = TRUE, !.current = Str(p.buffer)])

next(p, ahead) ==
  CASE p.state = "default" -> process([p EXCEPT !.i = p.i + 1], ArgAt(ahead), Rest(ahead))
    [] p.state = "dash"    -> handleDash(p)
    [] p.state = "value"   -> nextStaged(p)

\* s.lastIndexOf(c)
LastIndexOf(s, c) ==
  IF \E k \in 1..Len(s) : s[k] = c
  THEN (CHOOSE k \in 1..Len(s) : s[k] = c /\ \A j \in (k + 1)..Len(s) : s[j] # c) - 1
  ELSE -1

\* The long-flag branch splitting at the last "=" instead of the first.
processLongAtLastEq(p, s) ==
  LET q  == [p EXCEPT !.isFlag = TRUE]
      eq == LastIndexOf(s, "=")
  IN  IF eq >= 0
      THEN [q EXCEPT !.state = "value", !.buffer = Slice(s, eq + 1),
                     !.current = Str(SliceTo(s, eq))]
      ELSE [q EXCEPT !.current = Str(s)]

\* The long-flag branch of _process.
processLong(p, s) ==
  LET q  == [p EXCEPT !.isFlag = TRUE]
      eq == IndexOf(s, "=")
  IN  IF eq >= 0
      THEN [q EXCEPT !.state = "value", !.buffer = Slice(s, eq + 1),
                     !.current = Str(SliceTo(s, eq))]
      ELSE [q EXCEPT !.current = Str(s)]

\* The short-flag branch of _process.
processShort(p, s) ==
  handleDash([p EXCEPT !.isFlag = TRUE, !.state = "dash", !.buffer = Slice(s, 1)])

\* _process classifying the raw arguments after "--" like the ones before it.
processIgnoresRest(p, str, ahead) ==
  IF ~str.def
  THEN [p EXCEPT !.current = str, !.isFlag = FALSE, !.isValue = FALSE]
  ELSE IF str.s = DashDash
  THEN next([p EXCEPT !.isRest = TRUE, !.isFlag = FALSE, !.isValue = FALSE], ahead)
  ELSE LET q == [p EXCEPT !.isValue = FALSE]
       IN  IF StartsWith(str.s, DashDash) THEN processLong(q, str.s)
           ELSE IF StartsWith(str.s, Dash) THEN processShort(q, str.s)
           ELSE [q EXCEPT !.isFlag = FALSE, !.current = str]

\* _process without the reset of isValue for a fresh raw argument.
processKeepsIsValue(p, str, ahead) ==
  IF ~str.def \/ p.isRest
  THEN [p EXCEPT !.current = str, !.isFlag = FALSE, !.isValue = FALSE]
  ELSE IF str.s = DashDash
  THEN next([p EXCEPT !.isRest = TRUE, !.isFlag = FALSE, !.isValue = FALSE], ahead)
  ELSE IF StartsWith(str.s, DashDash) THEN processLong(p, str.s)
  ELSE IF StartsWith(str.s, Dash) THEN processShort(p, str.s)
  ELSE [p EXCEPT !.isFlag = FALSE, !.current = str]

\* _process leaving rest mode when the input is exhausted.
processResetsRest(p, str, ahead) ==
  IF ~str.def
  THEN [p EXCEPT !.current = str, !.isFlag = FALSE, !.isValue = FALSE,
                 !.isRest = FALSE]
  ELSE IF p.isRest
  THEN [p EXCEPT !.current = str, !.isFlag = FALSE, !.isValue = FALSE]
  ELSE IF str.s = DashDash
  THEN next([p EXCEPT !.isRest = TRUE, !.isFlag = FALSE, !.isValue = FALSE], ahead)
  ELSE LET q == [p EXCEPT !.isValue = FALSE]
       IN  IF StartsWith(str.s, DashDash) THEN processLong(q, str.s)
           ELSE IF StartsWith(str.s, Dash) THEN processShort(q, str.s)
           ELSE [q EXCEPT !.isFlag = FALSE, !.current = str]

process(p, str, ahead) ==
  IF ~str.def \/ p.isRest
  THEN [p EXCEPT !.current = str, !.isFlag = FALSE, !.isValue = FALSE]
  ELSE IF str.s = DashDash
  THEN next([p EXCEPT !.isRest = TRUE, !.isFlag = FALSE, !.isValue = FALSE], ahead)
  ELSE LET q == [p EXCEPT !.isValue = FALSE]
       IN  IF StartsWith(str.s, DashDash) THEN processLong(q, str.s)
           ELSE IF StartsWith(str.s, Dash) THEN processShort(q, str.s)
           ELSE [q EXCEPT !.isFlag = FALSE, !.current = str]

\* new ArgParser(argv), argv = <<argv[0]>> \o ahead (or empty).
construct(argv) ==
  process([i |-> 0, current |-> Undefined, state |-> "default", buffer |-> <<>>,
           isRest |-> FALSE, isFlag |-> FALSE, isValue |-> FALSE],
          ArgAt(argv), Rest(argv))

isDone(p) == ~p.current.def

\* nextValue() peeling one more flag, as next() does.
nextValuePeels(p, ahead) == next(p, ahead)

\* A nextValue() that takes what is staged after a short flag, "=" or not.
nextValueTakesStaged(p, ahead) ==
  IF p.state = "dash"
  THEN clearBuffer([p EXCEPT !.current = Str(p.buffer), !.isFlag = FALSE, !.isValue = TRUE])
  ELSE next(p, ahead)

nextValue(p, ahead) ==
  IF p.state = "dash" /\ CharAt0(p.buffer) # Str(Eq)
  THEN clearBuffer([p EXCEPT !.current = Str(p.buffer), !.isFlag = FALSE, !.isValue = TRUE])
  ELSE next(p, ahead)

\* What a call gives back: a returned value (possibly undefined) or a thrown error.
Return(v) == [threw |-> FALSE, value |-> v, error |-> ""]

Throw(msg) == [threw |-> TRUE, value |-> Undefined, error |-> msg]

\* readValue() returning the token it advanced to instead of the one it read.
readValueReturnsNew(p, ahead) ==
  IF ~p.current.def THEN [parser |-> p, ret |-> Throw("expected value")]
  ELSE IF p.isFlag THEN [parser |-> p, ret |-> Throw("expected value, not flag")]
  ELSE LET q == next(p, ahead) IN [parser |-> q, ret |-> Return(q.current)]

\* readValue(): the parser afterwards and the outcome of the call.
readValue(p, ahead) ==
  IF ~p.current.def THEN [parser |-> p, ret |-> Throw("expected value")]
  ELSE IF p.isFlag THEN [parser |-> p, ret |-> Throw("expected value, not flag")]
  ELSE [parser |-> next(p, ahead), ret |-> Return(p.current)]

\* readOptionalValue() taking any token that is not a flag.
readOptionalValueTakesPlain(p, ahead) ==
  IF p.current.def /\ ~p.isFlag THEN readValue(p, ahead)
  ELSE [parser |-> p, ret |-> Return(Undefined)]

readOptionalValue(p, ahead) ==
  IF p.isValue THEN readValue(p, ahead) ELSE [parser |-> p, ret |-> Return(Undefined)]

(***************************************************************************)
(* Box.  A box is the record of the object's fields and of its default     *)
(* handler; the boxes live in a store, a function from their names, since  *)
(* the handler of a derived box (map, or) reads the box it derives from.   *)
(* A call gives back the store afterwards and what it returned or threw.   *)
(***************************************************************************)
\* The JavaScript values a box holds.
JsUndefined == <<"undefined">>

JsBool(b) == <<"boolean", b>>

JsNum(n) == <<"number", n>>

JsStr(s) == <<"string", s>>

JsList(l) == <<"array", l>>

\* The default handlers: Box.empty, Box.withDefault(val), src.map(mapper),
\* src.or(content).
EmptyHandler == [kind |-> "empty", val |-> JsUndefined, src |-> ""]

DefaultHandler(v) == [kind |-> "default", val |-> v, src |-> ""]

MapHandler(src) == [kind |-> "map", val |-> JsUndefined, src |-> src]

OrHandler(src, v) == [kind |-> "or", val |-> v, src |-> src]

\* new Box(defaultHandler).  `runs` counts the calls of the handler.  `obj`
\* names the array object the content is, "" when the content is a primitive
\* value: an array is named by the box it was first put in, and two boxes
\* that hold the same array hold the same name.
newBox(h) ==
  [state |-> "pending", content |-> JsUndefined, handler |-> h, runs |-> 0, obj |-> ""]

Done(bs, ret) == [boxes |-> bs, ret |-> ret]

\* The mapper of the derived boxes: it wraps what the source holds.
mapper(v) == <<"mapped", v>>

\* setContent that overwrites the content of a filled box.
setContentOverwrites(bs, b, v) ==
  Done([bs EXCEPT ![b].state = "filled", ![b].content = v,
                  ![b].obj = IF v[1] = "array" THEN b ELSE ""],
       Return(JsUndefined))

\* The name of the object v is when b is the first box it is put in.
ObjIn(b, v) == IF v[1] = "array" THEN b ELSE ""

setContent(bs, b, v) ==
  IF bs[b].state = "filled" THEN Done(bs, Throw("duplicate argument"))
  ELSE Done([bs EXCEPT ![b].state = "filled", ![b].content = v, ![b].obj = ObjIn(b, v)],
            Return(JsUndefined))

\* setContent(this.get()) in the handler of or(): the content of the box
\* named src is put in b, the same object when it is one.
setContentFrom(bs, b, src, v) ==
  IF bs[b].state = "filled" THEN Done(bs, Throw("duplicate argument"))
  ELSE Done([bs EXCEPT ![b].state = "filled", ![b].content = v, ![b].obj = bs[src].obj],
            Return(JsUndefined))

setEmpty(bs, b) ==
  Done([bs EXCEPT ![b].state = "empty", ![b].content = JsUndefined, ![b].obj = ""],
       Return(JsUndefined))

RECURSIVE resolve(_, _)
RECURSIVE get(_, _)
RECURSIVE isEmpty(_, _)

\* this.defaultHandler(this)
runHandler(bs, b) ==
  LET h  == bs[b].handler
      b0 == [bs EXCEPT ![b].runs = @ + 1]
  IN  CASE h.kind = "empty"   -> setEmpty(b0, b)
        [] h.kind = "default" -> setContent(b0, b, h.val)
        [] h.kind = "map" ->
             LET e == isEmpty(b0, h.src)
             IN  IF e.ret.threw THEN e
                 ELSE IF e.ret.value = JsBool(TRUE) THEN setEmpty(e.boxes, b)
                 ELSE LET g == get(e.boxes, h.src)
                      IN  IF g.ret.threw THEN g
                          ELSE setContent(g.boxes, b, mapper(g.ret.value))
        [] h.kind = "or" ->
             LET e == isEmpty(b0, h.src)
             IN  IF e.ret.threw THEN e
                 ELSE IF e.ret.value = JsBool(TRUE) THEN setContent(e.boxes, b, h.val)
                 ELSE LET g == get(e.boxes, h.src)
                      IN  IF g.ret.threw THEN g
                          ELSE setContentFrom(g.boxes, b, h.src, g.ret.value)

\* A _resolve() that calls the default handler whatever the state is.
resolveAlways(bs, b) ==
  LET r == runHandler(bs, b)
  IN  IF r.ret.threw THEN r
      ELSE IF r.boxes[b].state = "pending"
      THEN Done(r.boxes, Throw("handled did not resolve"))
      ELSE Done(r.boxes, Return(JsUndefined))

resolve(bs, b) ==
  IF bs[b].state = "pending"
  THEN LET r == runHandler(bs, b)
       IN  IF r.ret.threw THEN r
           ELSE IF r.boxes[b].state = "pending"
           THEN Done(r.boxes, Throw("handled did not resolve"))
           ELSE Done(r.boxes, Return(JsUndefined))
  ELSE Done(bs, Return(JsUndefined))

\* A get() that takes the content out of the box it reads.
getTakes(bs, b) ==
  LET r == resolve(bs, b)
  IN  IF r.ret.threw THEN r
      ELSE IF r.boxes[b].state = "empty" THEN Done(r.boxes, Throw("argument required"))
      ELSE Done([r.boxes EXCEPT ![b].state = "empty", ![b].content = JsUndefined],
                Return(r.boxes[b].content))

get(bs, b) ==
  LET r == resolve(bs, b)
  IN  IF r.ret.threw THEN r
      ELSE IF r.boxes[b].state = "empty" THEN Done(r.boxes, Throw("argument required"))
      ELSE Done(r.boxes, Return(r.boxes[b].content))

isEmpty(bs, b) ==
  LET r == resolve(bs, b)
  IN  IF r.ret.threw THEN r
      ELSE Done(r.boxes, Return(JsBool(r.boxes[b].state = "empty")))

\* (state) => state + 1, the reducer of Arg.count
Increment == [fn |-> "increment", val |-> <<>>]

\* (state) => { state.push(val) }, the mutator of Arg.strings
Push(val) == [fn |-> "push", val |-> val]

\* The call f(state) of one of these functions.
apply(f, state) ==
  CASE f.fn = "increment" -> JsNum(state[2] + 1)
    [] f.fn = "push" -> JsList(Append(state[2], f.val))

\* updateContent(reducer)
updateContent(bs, b, reducer) ==
  LET g == get(bs, b)
  IN  IF g.ret.threw THEN g
      ELSE Done([g.boxes EXCEPT ![b].content = apply(reducer, g.ret.value),
                                ![b].obj = ObjIn(b, apply(reducer, g.ret.value))],
                Return(JsUndefined))

\* The boxes once the array object named o holds v: every box that holds
\* the object shows it.
Mutated(bs, o, v) ==
  [x \in DOMAIN bs |-> IF bs[x].obj = o THEN [bs[x] EXCEPT !.content = v] ELSE bs[x]]

\* mutateContent(mutator): the mutator changes the object the box holds, and
\* changes nothing when the box holds a primitive value.
mutateContent(bs, b, mutator) ==
  LET g == get(bs, b)
  IN  IF g.ret.threw THEN g
      ELSE IF g.ret.value[1] = "array"
      THEN Done(Mutated(g.boxes, g.boxes[b].obj, apply(mutator, g.ret.value)),
                Return(JsUndefined))
      ELSE Done(g.boxes, Return(JsUndefined))

(***************************************************************************)
(* Arg and CLI.  An Arg is the record of the object's fields, its runner   *)
(* named by the builder that defined it; the box a builder returns is kept *)
(* in the store of boxes under the name of the Arg.                        *)
(***************************************************************************)
\* new Arg(): no runner yet.
newArg == [expectsValue |-> FALSE, runner |-> "none", box |-> newBox(EmptyHandler)]

\* Arg.string() with the box of Arg.strings().
stringWithDefault ==
  [expectsValue |-> TRUE, runner |-> "string", box |-> newBox(DefaultHandler(JsList(<<>>)))]

string == [expectsValue |-> TRUE, runner |-> "string", box |-> newBox(EmptyHandler)]

maybeString ==
  [expectsValue |-> TRUE, runner |-> "maybeString",
   box |-> newBox(DefaultHandler(JsBool(FALSE)))]

strings ==
  [expectsValue |-> TRUE, runner |-> "strings", box |-> newBox(DefaultHandler(JsList(<<>>)))]

\* Arg.boolean() with a box that defaults to true.
booleanDefaultTrue ==
  [expectsValue |-> FALSE, runner |-> "boolean",
   box |-> newBox(DefaultHandler(JsBool(TRUE)))]

boolean ==
  [expectsValue |-> FALSE, runner |-> "boolean",
   box |-> newBox(DefaultHandler(JsBool(FALSE)))]

count ==
  [expectsValue |-> FALSE, runner |-> "count", box |-> newBox(DefaultHandler(JsNum(0)))]

\* Arg.do(runner): no box is returned.
do == [expectsValue |-> FALSE, runner |-> "do", box |-> newBox(EmptyHandler)]

\* A cli.do(code) that puts the task first.
cliDoFirst(tasks, a) == <<[by |-> a, nth |-> Len(tasks) + 1]>> \o tasks

\* cli.do(code), called by the runner of Arg.do: the task of the Arg named a
\* is pushed; `nth` tells the calls of cli.do apart, in their order.
cliDo(tasks, a) == Append(tasks, [by |-> a, nth |-> Len(tasks) + 1])

\* Arg.acceptValue(runner) with a runner that is an async function: no box
\* is returned.
acceptValue == [expectsValue |-> TRUE, runner |-> "acceptValue", box |-> newBox(EmptyHandler)]

\* Arg.command(cb): the runner calls cb and gives nothing back, whatever cb
\* gives; no box is returned.
command == [expectsValue |-> FALSE, runner |-> "command", box |-> newBox(EmptyHandler)]

\* The promise an async function returns.
JsPromise == <<"promise">>

\* What one step of the driving loop leaves behind.
Ran(p, bs, tasks, ret) == [parser |-> p, boxes |-> bs, tasks |-> tasks, ret |-> ret]

\* CLI._resolveArg(parser, current): the Arg the current token goes to
\* ("" when it throws before it has one).
resolveArg(c, as, p, ahead) ==
  IF p.isRest THEN [parser |-> p, arg |-> c.rest, ret |-> Return(JsUndefined)]
  ELSE IF p.current.s \notin DOMAIN c.triggers
  THEN IF p.isFlag THEN [parser |-> p, arg |-> "", ret |-> Throw("unexpected flag")]
       ELSE [parser |-> p, arg |-> c.rest, ret |-> Return(JsUndefined)]
  ELSE LET a == c.triggers[p.current.s]
       IN  IF as[a].expectsValue
           THEN [parser |-> nextValue(p, ahead), arg |-> a, ret |-> Return(JsUndefined)]
           ELSE LET q == next(p, ahead)
                IN  [parser |-> q, arg |-> a,
                     ret |-> IF q.isValue THEN Throw("unexpected value")
                             ELSE Return(JsUndefined)]

\* What a runner leaves behind once it has called a box: s is what the
\* call did.
Stored(p, tasks, s) == Ran(p, s.boxes, tasks, s.ret)

\* The runner acceptValue defines for string(): r is what readValue() did.
runString(a, bs, tasks, r) ==
  IF r.ret.threw THEN Ran(r.parser, bs, tasks, r.ret)
  ELSE Stored(r.parser, tasks, setContent(bs, a, JsStr(r.ret.value.s)))

\* The runner acceptOptionalValue defines for maybeString(): r is what
\* readOptionalValue() did.
runMaybeString(a, bs, tasks, r) ==
  IF r.ret.threw THEN Ran(r.parser, bs, tasks, r.ret)
  ELSE IF r.ret.value.def
  THEN Stored(r.parser, tasks, setContent(bs, a, JsStr(r.ret.value.s)))
  ELSE Stored(r.parser, tasks, setContent(bs, a, JsBool(TRUE)))

\* The runner acceptValue defines for strings(): r is what readValue() did.
runStrings(a, bs, tasks, r) ==
  IF r.ret.threw THEN Ran(r.parser, bs, tasks, r.ret)
  ELSE Stored(r.parser, tasks, mutateContent(bs, a, Push(r.ret.value.s)))

\* The runner of acceptValue: the value is read, then the async runner is
\* called with it, and gives its promise back.
runAcceptValue(bs, tasks, r) ==
  IF r.ret.threw THEN Ran(r.parser, bs, tasks, r.ret)
  ELSE Ran(r.parser, bs, tasks, Return(JsPromise))

\* Arg.process(cli, parser) for the Arg named a: its runner, as the builder
\* defined it.
processArg(as, a, p, bs, tasks, ahead) ==
  CASE as[a].runner = "none" -> Ran(p, bs, tasks, Throw("unexpected argument"))
    [] as[a].runner = "string" -> runString(a, bs, tasks, readValue(p, ahead))
    [] as[a].runner = "maybeString" ->
         runMaybeString(a, bs, tasks, readOptionalValue(p, ahead))
    [] as[a].runner = "strings" -> runStrings(a, bs, tasks, readValue(p, ahead))
    [] as[a].runner = "boolean" -> Stored(p, tasks, setContent(bs, a, JsBool(TRUE)))
    [] as[a].runner = "count" -> Stored(p, tasks, updateContent(bs, a, Increment))
    [] as[a].runner = "do" -> Ran(p, bs, cliDo(tasks, a), Return(JsUndefined))
    [] as[a].runner = "command" -> Ran(p, bs, tasks, Return(JsUndefined))
    [] as[a].runner = "acceptValue" -> runAcceptValue(bs, tasks, readValue(p, ahead))

(***************************************************************************)
(* The tokenizer driven by a caller: any sequence of next(), nextValue(),  *)
(* readValue() and readOptionalValue() over any argument list.             *)
(*                                                                         *)
(* The argument list is fixed at construction, but the parser reads each   *)
(* element once, in order, so an element is drawn when the code reads it.  *)
(***************************************************************************)
VARIABLES
  parser,   \* the ArgParser object
  arg,      \* this.argv[this.i], the raw argument under the cursor
  emitted,  \* the classified tokens the cursor has shown for that raw argument
  plain,    \* whether every advance since the cursor reached it was a next()
  sepSeen,  \* whether a raw argument that is exactly "--" has been reached
  sepShown, \* whether the cursor has stopped on the first such "--"
  used,     \* the number of characters of the raw arguments read so far
  last,     \* the last call made on the parser, and what it gave back
  calls     \* the number of calls of next() and nextValue() made so far

pvars == <<parser, arg, emitted, plain, sepSeen, sepShown, used, last, calls>>

VARIABLES
  boxes,    \* the Box objects, by name
  boxCall   \* the last call made on a box, and what it gave back

bvars == <<boxes, boxCall>>

VARIABLES
  cli,      \* the CLI object: its triggers, its rest Arg and its tasks
  args,     \* the Arg objects, by name
  pc,       \* where run() is: "parsing", "awaiting", "tasks", "returned" or "threw"
  error,    \* the message of the error run() threw
  matched,  \* how many times _resolveArg gave a token to each Arg
  ran,      \* the tasks processTasks has run, in order
  inProgress \* the number of runners that were called and have not completed

cvars == <<cli, args, pc, error, matched, ran, inProgress>>

vars == <<pvars, bvars, cvars>>

\* No box exists.
NoBoxes ==
  /\ boxes = <<>>
  /\ boxCall = [op |-> "none", box |-> "", arg |-> JsUndefined, ret |-> Return(JsUndefined)]

\* No CLI exists.
NoCLI ==
  /\ cli = [triggers |-> <<>>, rest |-> "", tasks |-> <<>>]
  /\ args = <<>>
  /\ pc = "none"
  /\ error = ""
  /\ matched = <<>>
  /\ ran = <<>>
  /\ inProgress = 0

\* Every raw argument of at most n characters.
ArgStrings(n) == UNION {[1..k -> Chars] : k \in 0..n}

\* The argument lists of at most n characters, as far as one step reads them.
\* A step reads at most two elements: the "--" that starts the rest region
\* and the element after it.
Lists(n, inRest) ==
  {<<>>} \cup {<<a>> : a \in ArgStrings(n)}
  \cup (IF inRest THEN {} ELSE {<<DashDash, a>> : a \in ArgStrings(n - 2)})

\* The unread argument lists a step may meet: nothing is read inside a raw
\* argument, and nothing is left once the input is exhausted.
Aheads(p) ==
  IF p.state # "default" \/ isDone(p) THEN {<<>>}
  ELSE Lists(MaxChars - used, p.isRest)

\* The argument lists a parser is constructed from.
Argvs == Lists(MaxChars, FALSE)

\* The classified token the parser shows.
Tok(p) == [text |-> p.current, isFlag |-> p.isFlag, isValue |-> p.isValue,
           isRest |-> p.isRest]

\* The element of `ahead` the cursor has reached after reading n of them.
Reached(ahead, n) == IF n >= 1 /\ n <= Len(ahead) THEN Str(ahead[n]) ELSE Undefined

\* The tokens shown for the raw argument under the cursor, after a call that
\* took the parser from index i0 to q.
Shown(i0, q, shownBefore) ==
  IF q.i # i0 THEN (IF isDone(q) THEN <<>> ELSE <<Tok(q)>>)
  ELSE Append(shownBefore, Tok(q))

\* The number of characters in the first n elements of `ahead`: a read past
\* its end finds none.
RECURSIVE CharsIn(_, _)
CharsIn(ahead, n) ==
  IF n <= 0 \/ ahead = <<>> THEN 0 ELSE Len(Head(ahead)) + CharsIn(Tail(ahead), n - 1)

\* Whether a "--" is among the first n elements of `ahead`.
SepAmong(ahead, n) == \E k \in 1..n : k <= Len(ahead) /\ ahead[k] = DashDash

\* Whether the n-th element of `ahead`, on which the cursor stopped, is the
\* first "--" of the argument list.
SepUnderCursor(ahead, n, seenBefore) ==
  ~seenBefore /\ Reached(ahead, n) = Str(DashDash) /\ ~SepAmong(ahead, n - 1)

\* A call that advanced the parser from p to q over `ahead`.
Advanced(p, q, ahead, isPlain, call) ==
  /\ parser' = q
  /\ arg' = IF q.i # p.i THEN Reached(ahead, q.i - p.i) ELSE arg
  /\ emitted' = Shown(p.i, q, emitted)
  /\ plain' = IF q.i # p.i THEN TRUE ELSE plain /\ isPlain
  /\ sepSeen' = (sepSeen \/ SepAmong(ahead, q.i - p.i))
  /\ sepShown' = (sepShown \/ SepUnderCursor(ahead, q.i - p.i, sepSeen))
  /\ used' = used + CharsIn(ahead, q.i - p.i)
  /\ last' = call
  /\ calls' = calls + 1
  /\ UNCHANGED <<bvars, cvars>>

\* A call that left the parser where it was.
Stayed(call) ==
  /\ last' = call
  /\ UNCHANGED <<parser, arg, emitted, plain, sepSeen, sepShown, used, calls>>
  /\ UNCHANGED <<bvars, cvars>>

Call(op, ret) == [op |-> op, ret |-> ret]

\* The caller may keep calling while the cursor index is below MaxIndex.
CanCall == parser.state = "default" => parser.i < MaxIndex

PInit ==
  \E argv \in Argvs :
    LET q == construct(argv)
    IN  /\ NoBoxes
        /\ NoCLI
        /\ parser = q
        /\ arg = Reached(argv, q.i + 1)
        /\ emitted = Shown(-1, q, <<>>)
        /\ plain = TRUE
        /\ sepSeen = SepAmong(argv, q.i + 1)
        /\ sepShown = SepUnderCursor(argv, q.i + 1, FALSE)
        /\ used = CharsIn(argv, q.i + 1)
        /\ last = Call("new", Return(Undefined))
        /\ calls = 0

DoNext ==
  /\ CanCall
  /\ \E ahead \in Aheads(parser) :
       Advanced(parser, next(parser, ahead), ahead, TRUE, Call("next", Return(Undefined)))

DoNextValue ==
  /\ CanCall
  /\ \E ahead \in Aheads(parser) :
       Advanced(parser, nextValue(parser, ahead), ahead, FALSE,
                Call("nextValue", Return(Undefined)))

\* A read call, Result(ahead) being what it does over `ahead`.  A call that
\* leaves the parser alone has not read the argument list.
Read(op, Result(_)) ==
  IF Result(<<>>).parser = parser
  THEN Stayed(Call(op, Result(<<>>).ret))
  ELSE \E ahead \in Aheads(parser) :
         Advanced(parser, Result(ahead).parser, ahead, TRUE, Call(op, Result(ahead).ret))

DoReadValue ==
  /\ CanCall
  /\ LET Result(ahead) == readValue(parser, ahead) IN Read("readValue", Result)

DoReadOptionalValue ==
  /\ CanCall
  /\ LET Result(ahead) == readOptionalValue(parser, ahead)
     IN  Read("readOptionalValue", Result)

PNext == DoNext \/ DoNextValue \/ DoReadValue \/ DoReadOptionalValue

Spec == PInit /\ [][PNext]_vars

(***************************************************************************)
(* Properties of the tokenizer                                             *)
(***************************************************************************)
IsPrefix(t, s) == Len(t) <= Len(s) /\ SubSeq(s, 1, Len(t)) = t

FlagToken(text) ==
  [text |-> Str(text), isFlag |-> TRUE, isValue |-> FALSE, isRest |-> FALSE]

ValueToken(text) ==
  [text |-> Str(text), isFlag |-> FALSE, isValue |-> TRUE, isRest |-> FALSE]

RestToken(text) ==
  [text |-> Str(text), isFlag |-> FALSE, isValue |-> FALSE, isRest |-> TRUE]

\* The last call moved the cursor to its next token.
StepAdvanced ==
  \/ last'.op \in {"next", "nextValue"}
  \/ last'.op \in {"readValue", "readOptionalValue"}
       /\ ~last'.ret.threw /\ last'.ret.value.def

\* The cursor is on a raw argument of the form Form, reached outside rest
\* mode, and has been advanced by next() alone since it reached it.
PlainOn(Form(_)) == arg.def /\ Form(arg.s) /\ ~parser.isRest /\ plain

\* Under next() alone a raw argument s of the form Form shows the tokens
\* Expected(s), in order, no other token, and all of them before the cursor
\* leaves it.
ShowsSoFar(Form(_), Expected(_)) ==
  PlainOn(Form) => emitted # <<>> /\ IsPrefix(emitted, Expected(arg.s))

ShowsAll(Form(_), Expected(_)) ==
  PlainOn(Form) /\ StepAdvanced /\ parser'.i # parser.i => emitted = Expected(arg.s)

\* "-" c1 .. cn [ "=" v ]: the flags -c1 .. -cn, then the value v if "=" is there.
ClusterTokens(s) ==
  LET eq == IndexOf(s, "=")
      n  == IF eq >= 0 THEN eq - 1 ELSE Len(s) - 1
  IN  [k \in 1..n |-> FlagToken(<<"-", s[k + 1]>>)]
        \o (IF eq >= 0 THEN <<ValueToken(Slice(s, eq + 1))>> ELSE <<>>)

\* A dash followed by at least one character, the first of which is not "=".
DashForm(s) == Len(s) >= 2 /\ s[1] = "-" /\ s[2] # "="

\* ... and which does not start with two dashes.
ClusterForm(s) == DashForm(s) /\ s[2] # "-"

\* C1 as stated: every raw argument "-" c1 .. cn [ "=" v ] with n >= 1 and no
\* ci an "=", reached outside rest mode, shows under next() exactly the flags
\* -c1 .. -cn in order and then, iff the "=" is there, the value v, before the
\* cursor moves to the next raw argument.
C1_AsStated ==
  /\ ShowsSoFar(DashForm, ClusterTokens)
  /\ [][ShowsSoFar(DashForm, ClusterTokens)' /\ ShowsAll(DashForm, ClusterTokens)]_pvars

\* C1, amended: the same for the raw arguments that do not start with two
\* dashes (c1 is not "-").
C1_ShortCluster ==
  /\ ShowsSoFar(ClusterForm, ClusterTokens)
  /\ [][ShowsSoFar(ClusterForm, ClusterTokens)'
          /\ ShowsAll(ClusterForm, ClusterTokens)]_pvars

\* The cluster -a-=a has shown its two flags, -a and --, and then its value.
C1_Witness ==
  /\ arg = Str(<<"-", "a", "-", "=", "a">>)
  /\ plain
  /\ emitted = <<FlagToken(<<"-", "a">>), FlagToken(<<"-", "-">>), ValueToken(<<"a">>)>>

\* The text of a long flag is everything before the first "=", its value
\* everything after it.
LongTokens(s) ==
  LET eq == IndexOf(s, "=")
  IN  IF eq >= 0 THEN <<FlagToken(SliceTo(s, eq)), ValueToken(Slice(s, eq + 1))>>
      ELSE <<FlagToken(s)>>

LongForm(s) == StartsWith(s, DashDash) /\ s # DashDash

\* C2: a raw argument that starts with two dashes and is not "--", reached
\* outside rest mode, shows a flag whose text is the part before the first "="
\* (all of it without one); with an "=" the next next() shows exactly one
\* value token, the part after the first "=", and without one the next next()
\* moves to the following raw argument.
C2_LongFlag ==
  /\ ShowsSoFar(LongForm, LongTokens)
  /\ [][ShowsSoFar(LongForm, LongTokens)' /\ ShowsAll(LongForm, LongTokens)]_pvars

\* A long flag with a value that itself holds an "=" has shown both tokens.
C2_Witness ==
  /\ arg = Str(<<"-", "-", "a", "=", "=">>)
  /\ plain
  /\ emitted = <<FlagToken(<<"-", "-", "a">>), ValueToken(<<"=">>)>>

\* C3: once the first raw argument that is exactly "--" has been reached the
\* parser is in rest mode, the cursor has not stopped on that "--" (it is not
\* shown as a token), and the raw argument under the cursor is shown as exactly one
\* token, its text verbatim, with isRest and neither isFlag nor isValue.
C3_RestVerbatim ==
  sepSeen =>
    /\ parser.isRest
    /\ ~sepShown
    /\ arg.def => emitted = <<RestToken(arg.s)>> /\ Tok(parser) = RestToken(arg.s)
    /\ ~arg.def => emitted = <<>> /\ isDone(parser)

\* After "--", a raw argument that looks like a long flag with a value, or a
\* second "--", is under the cursor, one token, not a flag.
C3_Witness ==
  /\ sepSeen
  /\ parser.i = MaxIndex
  /\ last.op = "next"
  /\ arg.def /\ (StartsWith(arg.s, DashDash) \/ StartsWith(arg.s, <<"-", "a">>))
  /\ emitted = <<RestToken(arg.s)>>

\* The current token is a flag peeled from a cluster whose buffer still holds
\* characters that do not start with "=".
MidCluster(p) ==
  p.state = "dash" /\ p.isFlag /\ Len(p.buffer) > 0 /\ p.buffer[1] # "="

\* The value token nextValue() made of the rest of a cluster is the current one.
AfterShortCircuit == last.op = "nextValue" /\ parser.isValue /\ ~plain

\* C4: on a flag peeled from a cluster with un-peeled characters that do not
\* start with "=", nextValue() shows the whole remaining buffer verbatim as one
\* token that is a value and not a flag, and ends the cluster: the following
\* advance moves to the next raw argument.
C4_NextValueTakesRest ==
  [][/\ last'.op = "nextValue" /\ MidCluster(parser) =>
          /\ parser'.current = Str(parser.buffer)
          /\ ~parser'.isFlag /\ parser'.isValue
          /\ parser'.i = parser.i
          /\ emitted' = Append(emitted, ValueToken(parser.buffer))
     /\ AfterShortCircuit /\ StepAdvanced => parser'.i # parser.i]_pvars

\* -a-a- positioned at -- after one next(): nextValue() has shown "a-".
C4_Witness ==
  /\ arg = Str(<<"-", "a", "-", "a", "-">>)
  /\ last.op = "nextValue"
  /\ emitted = <<FlagToken(<<"-", "a">>), FlagToken(<<"-", "-">>),
                 ValueToken(<<"a", "-">>)>>

\* The raw arguments the last call read, as the cursor shows them.
SeenAhead ==
  LET n    == parser'.i - parser.i
      here == IF arg'.def THEN <<arg'.s>> ELSE <<>>
  IN  IF n <= 0 THEN <<>> ELSE IF n = 1 THEN here ELSE <<DashDash>> \o here

\* C5: readValue() fails with "expected value" when there is no current token,
\* with "expected value, not flag" when the current token is a flag, and
\* otherwise returns the text of the token that was current and leaves the
\* parser where a single next() would have left it.
C5_ReadValue ==
  [][last'.op = "readValue" =>
       IF isDone(parser) THEN last'.ret = Throw("expected value")
       ELSE IF parser.isFlag THEN last'.ret = Throw("expected value, not flag")
       ELSE /\ last'.ret = Return(parser.current)
            /\ parser' = next(parser, SeenAhead)]_pvars

\* readValue() has returned the token "a=" and the cursor is on the flag -a
\* of the following raw argument.
C5_Witness ==
  /\ last.op = "readValue"
  /\ ~last.ret.threw
  /\ last.ret.value = Str(<<"a", "=">>)
  /\ parser.i = 1
  /\ emitted = <<FlagToken(<<"-", "a">>)>>

\* C6: readOptionalValue() returns the current token's text and advances by
\* next() only when isValue is true; in every other state it returns
\* undefined and leaves the whole parser unchanged.
C6_ReadOptionalValue ==
  [][last'.op = "readOptionalValue" =>
       IF parser.isValue
       THEN /\ last'.ret = Return(parser.current)
            /\ parser' = next(parser, SeenAhead)
       ELSE /\ last'.ret = Return(Undefined)
            /\ parser' = parser]_pvars

\* readOptionalValue() has returned undefined on a plain positional token.
C6_Witness ==
  /\ last.op = "readOptionalValue"
  /\ last.ret = Return(Undefined)
  /\ parser.current = Str(<<"a">>) /\ ~parser.isFlag /\ ~parser.isRest

\* parse() of the test: the tokens repeated next() shows for the argument
\* list a parser was constructed from, `fuel` tokens at most.  Each parser is
\* bound as a value before it is used.
RECURSIVE drain(_, _)
drain(p, fuel) ==
  IF isDone(p) \/ fuel = 0 THEN <<>>
  ELSE <<Tok(p)>> \o (CHOOSE r \in {drain(q, fuel - 1) : q \in {next(p, <<>>)}} : TRUE)

\* The tokens of raw argument s tokenized on its own: no more than one for
\* each of its characters, or one if it has none.
TokensAlone(s) ==
  CHOOSE r \in {drain(q, Len(s) + 2) : q \in {construct(<<s>>)}} : TRUE

\* TokensAlone, tabulated for the raw arguments the parser can read.
TokensAloneTable == [s \in ArgStrings(MaxChars) |-> TokensAlone(s)]

TokensOnItsOwn(s) == TokensAloneTable[s]

\* The argument list read so far holds no "--".
NoSeparator(s) == ~sepSeen

\* C7: under next() alone, in an argument list without "--", the tokens shown
\* for each raw argument are those it shows when tokenized on its own, so the
\* tokens of the list are the concatenation of the tokens of its elements.
C7_Compositional ==
  /\ ShowsSoFar(NoSeparator, TokensOnItsOwn)
  /\ [][ShowsSoFar(NoSeparator, TokensOnItsOwn)'
          /\ ShowsAll(NoSeparator, TokensOnItsOwn)]_pvars

\* A plain argument that holds an "=" is the second one next() has reached.
C7_Witness ==
  /\ ~sepSeen /\ plain
  /\ parser.i = 1
  /\ last.op = "next"
  /\ arg = Str(<<"a", "=">>)
  /\ emitted = <<[text |-> arg, isFlag |-> FALSE, isValue |-> FALSE, isRest |-> FALSE]>>

\* C8: once isRest is true it is true in every later state.
C8_RestMonotonic == [][parser.isRest => parser'.isRest]_pvars

\* The input is exhausted in rest mode and the caller has called again.
C8_Witness == parser.isRest /\ isDone(parser) /\ parser.i = MaxIndex + 1

(***************************************************************************)
(* Boxes driven by a caller: a source box made by Box.empty() or           *)
(* Box.withDefault(val), a box mapped from it and a box or-ed from it,     *)
(* under any sequence of calls on any of them.                             *)
(***************************************************************************)
BoxNames == {"src", "mapped", "ored"}

\* The values Box.withDefault is given by the builders.
Defaults == {JsBool(FALSE), JsNum(0), JsList(<<>>)}

\* The values the caller gives to setContent.
Contents == {JsBool(TRUE), JsStr(<<"a">>)}

\* The value given to or().
OrContent == JsStr(<<"=">>)

SourceHandlers == {EmptyHandler} \cup {DefaultHandler(v) : v \in Defaults}

BoxCall(op, b, v, ret) == [op |-> op, box |-> b, arg |-> v, ret |-> ret]

IdleParser ==
  /\ parser = construct(<<>>)
  /\ arg = Undefined
  /\ emitted = <<>>
  /\ plain = TRUE
  /\ sepSeen = FALSE
  /\ sepShown = FALSE
  /\ used = 0
  /\ last = Call("new", Return(Undefined))
  /\ calls = 0

BInit ==
  \E h \in SourceHandlers :
    /\ boxes = [b \in BoxNames |->
                  CASE b = "src" -> newBox(h)
                    [] b = "mapped" -> newBox(MapHandler("src"))
                    [] b = "ored" -> newBox(OrHandler("src", OrContent))]
    /\ boxCall = BoxCall("new", "src", JsUndefined, Return(JsUndefined))
    /\ IdleParser
    /\ NoCLI

\* A call on a box: r is what it did.
Called(op, b, v, r) ==
  /\ boxes' = r.boxes
  /\ boxCall' = BoxCall(op, b, v, r.ret)

DoSetContent ==
  \E b \in BoxNames, v \in Contents :
    Called("setContent", b, v, setContent(boxes, b, v)) /\ UNCHANGED <<pvars, cvars>>

DoSetEmpty ==
  \E b \in BoxNames :
    Called("setEmpty", b, JsUndefined, setEmpty(boxes, b)) /\ UNCHANGED <<pvars, cvars>>

DoGet ==
  \E b \in BoxNames :
    Called("get", b, JsUndefined, get(boxes, b)) /\ UNCHANGED <<pvars, cvars>>

DoIsEmpty ==
  \E b \in BoxNames :
    Called("isEmpty", b, JsUndefined, isEmpty(boxes, b)) /\ UNCHANGED <<pvars, cvars>>

\* updateContent with the reducer of Arg.count, on a box that holds a number.
DoUpdateContent ==
  \E b \in BoxNames :
    LET g == get(boxes, b)
    IN  /\ IF g.ret.threw THEN TRUE
           ELSE IF g.ret.value[1] = "number" THEN g.ret.value[2] < MaxCount
           ELSE FALSE
        /\ Called("updateContent", b, JsUndefined, updateContent(boxes, b, Increment))
        /\ UNCHANGED <<pvars, cvars>>

\* mutateContent with the mutator of Arg.strings.
DoMutateContent ==
  \E b \in BoxNames :
    LET g == get(boxes, b)
    IN  /\ IF g.ret.threw THEN TRUE
           ELSE IF g.ret.value[1] = "array" THEN Len(g.ret.value[2]) < MaxList
           ELSE TRUE
        /\ Called("mutateContent", b, JsUndefined, mutateContent(boxes, b, Push(<<"a">>)))
        /\ UNCHANGED <<pvars, cvars>>

BNext ==
  DoSetContent \/ DoSetEmpty \/ DoGet \/ DoIsEmpty \/ DoUpdateContent \/ DoMutateContent

SpecBox == BInit /\ [][BNext]_vars

(***************************************************************************)
(* Properties of Box                                                       *)
(***************************************************************************)
\* C9: when setContent is called on a box and the next call made on any box
\* is setContent on the same one, that second call throws "duplicate
\* argument" and leaves the box as it was: filled, and holding what the first
\* call gave it when the first call succeeded.
C9_SecondSetContent ==
  [][(/\ boxCall.op = "setContent"
      /\ boxCall'.op = "setContent"
      /\ boxCall'.box = boxCall.box)
     => (/\ boxCall'.ret = Throw("duplicate argument")
         /\ boxes' = boxes
         /\ boxes'[boxCall.box].state = "filled"
         /\ ~boxCall.ret.threw => boxes'[boxCall.box].content = boxCall.arg)]_vars

\* A second setContent was refused, and the box holds what the first gave it.
C9_Witness ==
  /\ boxCall.op = "setContent"
  /\ boxCall.ret = Throw("duplicate argument")
  /\ boxCall.arg = JsStr(<<"a">>)
  /\ boxes[boxCall.box].state = "filled"
  /\ boxes[boxCall.box].content = JsBool(TRUE)
  /\ boxes[boxCall.box].runs = 0

\* The step is a read, get() or isEmpty, of a box derived from "src".
DerivedRead ==
  /\ boxCall'.op \in {"get", "isEmpty"}
  /\ boxCall'.box \in {"mapped", "ored"}

\* What a box derived from a box in the state s gives to the read op.
DerivedGives(op, b, s) ==
  CASE op = "isEmpty" -> Return(JsBool(b = "mapped" /\ s.state = "empty"))
    [] b = "mapped" /\ s.state = "empty" -> Throw("argument required")
    [] b = "mapped" -> Return(mapper(s.content))
    [] s.state = "empty" -> Return(OrContent)
    [] OTHER -> Return(s.content)

\* The source once its default handler ran.
Defaulted(s) ==
  IF s.handler.kind = "empty"
  THEN [s EXCEPT !.state = "empty", !.runs = 1]
  ELSE [s EXCEPT !.state = "filled", !.content = s.handler.val, !.runs = 1,
                 !.obj = ObjIn("src", s.handler.val)]

\* C13 as stated: a read of a box derived with map() or or() leaves the
\* state and the content of the source as they were.
C13_AsStated ==
  [][DerivedRead => /\ boxes'["src"].state = boxes["src"].state
                    /\ boxes'["src"].content = boxes["src"].content]_vars

\* C13: a read of a box derived with map() or or() leaves a source that is
\* filled or empty as it was; the first read of the derived box resolves a
\* source that is still pending, by the source's default handler, and gives
\* what the resolved source holds; a read of a derived box that is filled or
\* empty leaves the source as it was, pending too.
C13_ResolvedSourceKept ==
  [][DerivedRead =>
       /\ boxes'["src"] =
            IF boxes["src"].state = "pending" /\ boxes[boxCall'.box].state = "pending"
            THEN Defaulted(boxes["src"])
            ELSE boxes["src"]
       /\ boxes[boxCall'.box].state = "pending"
            => boxCall'.ret = DerivedGives(boxCall'.op, boxCall'.box, boxes'["src"])]_vars

\* The mapped box was read for the first time and gave the default of the
\* source, which that read filled: a setContent on the source now throws.
C13_Witness ==
  /\ boxCall = BoxCall("get", "mapped", JsUndefined, Return(mapper(JsBool(FALSE))))
  /\ boxes["src"].state = "filled"
  /\ boxes["src"].runs = 1
  /\ boxes["ored"].state = "pending"
  /\ setContent(boxes, "src", JsBool(TRUE)).ret = Throw("duplicate argument")

\* C14 as stated: in every call on any box, a box that is filled stays
\* filled, a box that is empty stays empty, and no box goes back to pending.
C14_AsStated ==
  [][\A b \in BoxNames :
       /\ boxes[b].state = "filled" => boxes'[b].state = "filled"
       /\ boxes[b].state = "empty" => boxes'[b].state = "empty"
       /\ boxes[b].state # "pending" => boxes'[b].state # "pending"]_vars

\* What holds of the lifecycle: no box goes back to pending, only setEmpty
\* takes a box out of filled, and only setContent takes a box out of empty.
C14_OnlyByDirectWrite ==
  [][\A b \in BoxNames :
       /\ boxes[b].state # "pending" => boxes'[b].state # "pending"
       /\ boxes[b].state = "filled" /\ boxes'[b].state # "filled"
            => boxCall' = BoxCall("setEmpty", b, JsUndefined, Return(JsUndefined))
       /\ boxes[b].state = "empty" /\ boxes'[b].state # "empty"
            => /\ boxCall'.op = "setContent"
               /\ boxCall'.box = b
               /\ boxCall'.ret = Return(JsUndefined)]_vars

\* The calls that read a box.
ReadOps == {"get", "isEmpty", "mutateContent", "updateContent"}

\* The default handler of b runs in the step.
HandlerRuns(b) == boxes'[b].runs # boxes[b].runs

\* C15: the default handler of a box runs at most once; it runs only in a
\* read (get, isEmpty, mutateContent, updateContent), only on a box that is
\* pending, and leaves the box filled or empty; it never runs in a
\* setContent or a setEmpty, nor on a box that was written before it was
\* read, and a read of a box that was filled by setContent gives what
\* setContent put in it.
C15_DefaultRunsOnce ==
  /\ [](\A b \in BoxNames :
          /\ boxes[b].runs <= 1
          /\ boxes[b].runs = 1 => boxes[b].state # "pending")
  /\ [][\A b \in BoxNames :
          /\ HandlerRuns(b) => /\ boxes[b].state = "pending"
                                /\ boxes[b].runs = 0
                                /\ boxes'[b].runs = 1
                                /\ boxes'[b].state # "pending"
                                /\ boxCall'.op \in ReadOps
          /\ boxCall'.op \in ReadOps /\ boxCall'.box = b /\ boxes[b].state = "pending"
               => HandlerRuns(b)
          /\ (/\ boxCall.op = "setContent"
              /\ boxCall.box = b
              /\ ~boxCall.ret.threw
              /\ boxCall'.op = "get"
              /\ boxCall'.box = b)
               => /\ boxCall'.ret = Return(boxCall.arg)
                  /\ boxes' = boxes]_vars

\* A box with the default false was filled with true before any read, and a
\* get() gave true: its default handler never ran.
C15_Witness ==
  /\ boxCall = BoxCall("get", "src", JsUndefined, Return(JsBool(TRUE)))
  /\ boxes["src"].handler = DefaultHandler(JsBool(FALSE))
  /\ boxes["src"].state = "filled"
  /\ boxes["src"].runs = 0
  /\ boxes["mapped"].runs = 1

(***************************************************************************)
(* CLI.run(argv): a CLI set up with one Arg on the triggers "-a" and "--a" *)
(* and with its rest Arg, each defined by one of the builders, run over    *)
(* any argument list, and the boxes read once run() is over.               *)
(***************************************************************************)
ArgNames == {"opt", "rest"}

TriggerNames == {<<"-", "a">>, <<"-", "-", "a">>}

\* What setup does with cli.on("-a", "--a"), and what it does with cli.rest.
Builders == {string, maybeString, strings, boolean, count, do, acceptValue}

OptBuilders == Builders \cup {command}

RestBuilders == Builders \cup {newArg}

\* The raw arguments a run is given: a positional, the empty string, the
\* trigger in its short and its long form, the short one twice in a cluster,
\* each form with a value after "=", the short one with nothing after "=",
\* the lone dash and the separator.
Words ==
  {<<"a">>, <<>>, <<"-", "a">>, <<"-", "-", "a">>, <<"-", "a", "a">>,
   <<"-", "a", "=", "a">>, <<"-", "-", "a", "=", "a">>, <<"-", "a", "=">>, Dash, DashDash}

\* The argument lists made of them, as far as one step reads them.
WordLists(inRest) ==
  {<<>>} \cup {<<w>> : w \in Words}
  \cup (IF inRest THEN {} ELSE {<<DashDash, w>> : w \in Words})

\* The unread part of the argument list, which ends once the parser has read
\* MaxIndex elements of it.
ArgvAheads(p) ==
  IF p.state # "default" \/ isDone(p) \/ p.i + 1 >= MaxIndex THEN {<<>>}
  ELSE WordLists(p.isRest)

\* The unread parts to draw for a call that takes the parser from p to q0
\* when nothing is left to read: none when the call does not advance.
AheadsOf(p, q0) == IF q0 = p THEN {<<>>} ELSE ArgvAheads(p)

CInit ==
  \E o \in OptBuilders, r \in RestBuilders, argv \in WordLists(FALSE) :
    LET q == construct(argv)
        builder == [a \in ArgNames |-> IF a = "opt" THEN o ELSE r]
    IN  /\ cli = [triggers |-> [n \in TriggerNames |-> "opt"], rest |-> "rest",
                  tasks |-> <<>>]
        /\ args = [a \in ArgNames |->
                     [expectsValue |-> builder[a].expectsValue, runner |-> builder[a].runner]]
        /\ boxes = [a \in ArgNames |-> builder[a].box]
        /\ boxCall = BoxCall("new", "opt", JsUndefined, Return(JsUndefined))
        /\ pc = "parsing"
        /\ error = ""
        /\ matched = [a \in ArgNames |-> 0]
        /\ ran = <<>>
        /\ inProgress = 0
        /\ parser = q
        /\ used = 0
        /\ arg = Undefined
        /\ emitted = <<>>
        /\ plain = TRUE
        /\ sepSeen = FALSE
        /\ sepShown = FALSE
        /\ last = Call("new", Return(Undefined))
        /\ calls = 0

\* The counters a parse pass can raise without end are below their bounds.
BelowBounds ==
  /\ Len(cli.tasks) < MaxTasks
  /\ \A a \in ArgNames :
       IF boxes[a].content[1] = "number" THEN boxes[a].content[2] < MaxCount ELSE TRUE

\* A loop that goes on with the next token without waiting for the runner.
notAwaited(ret) == IF ret.threw THEN "threw" ELSE "parsing"

\* await arg.process(cli, parser): where the loop is once the runner gave
\* ret. It waits when the runner gave a promise.
awaited(ret) ==
  IF ret.threw THEN "threw"
  ELSE IF ret.value = JsPromise THEN "awaiting"
  ELSE "parsing"

\* The runners in progress once one more gave ret: a runner that gives a
\* promise has not completed.
Started(ret) ==
  IF ~ret.threw /\ ret.value = JsPromise THEN inProgress + 1 ELSE inProgress

\* What one iteration of the loop of processArgUntilError leaves behind.
Iterated(q, bs, tasks, m, ret) ==
  /\ parser' = q
  /\ boxes' = bs
  /\ cli' = [cli EXCEPT !.tasks = tasks]
  /\ matched' = m
  /\ pc' = awaited(ret)
  /\ inProgress' = Started(ret)
  /\ error' = ret.error
  /\ UNCHANGED <<arg, emitted, plain, sepSeen, sepShown, used, last, calls, boxCall, args, ran>>

\* The promise of the runner the loop waits for settles: the loop goes on
\* when it is fulfilled, and run() rejects when it is rejected.
Settle ==
  /\ pc = "awaiting"
  /\ inProgress > 0
  /\ inProgress' = inProgress - 1
  /\ \E fulfilled \in BOOLEAN :
       /\ pc' = IF fulfilled THEN "parsing" ELSE "threw"
       /\ error' = IF fulfilled THEN error ELSE "rejected"
  /\ UNCHANGED <<pvars, bvars, cli, args, matched, ran>>

\* The count of the tokens given to each Arg, once one more went to a.
Matched(a) == [matched EXCEPT ![a] = @ + 1]

\* The iteration ends: x is what the process of the Arg named a did.
Processed(a, x) == Iterated(x.parser, x.boxes, x.tasks, Matched(a), x.ret)

\* _resolveArg has run, r is what it did: the iteration ends if it threw,
\* and goes on with the process of the Arg it gave otherwise.
Resolved(r) ==
  IF r.ret.threw THEN Iterated(r.parser, boxes, cli.tasks, matched, r.ret)
  ELSE \E a2 \in AheadsOf(r.parser,
                          processArg(args, r.arg, r.parser, boxes, cli.tasks, <<>>).parser) :
         Processed(r.arg, processArg(args, r.arg, r.parser, boxes, cli.tasks, a2))

\* One iteration of the loop of processArgUntilError: _resolveArg, then the
\* process of the Arg it gave.
Dispatch ==
  /\ pc = "parsing"
  /\ parser.current.def
  /\ BelowBounds
  /\ \E a1 \in AheadsOf(parser, resolveArg(cli, args, parser, <<>>).parser) :
       Resolved(resolveArg(cli, args, parser, a1))

\* parser.current is undefined: the loop is over, processTasks starts.
EndOfArgs ==
  /\ pc = "parsing"
  /\ ~parser.current.def
  /\ pc' = "tasks"
  /\ UNCHANGED <<pvars, bvars, cli, args, error, matched, ran, inProgress>>

\* processTasks runs the next task.
RunTask ==
  /\ pc = "tasks"
  /\ Len(ran) < Len(cli.tasks)
  /\ ran' = Append(ran, cli.tasks[Len(ran) + 1])
  /\ UNCHANGED <<pvars, bvars, cli, args, pc, error, matched, inProgress>>

\* Every task has run: run() returns.
TasksDone ==
  /\ pc = "tasks"
  /\ Len(ran) = Len(cli.tasks)
  /\ pc' = "returned"
  /\ UNCHANGED <<pvars, bvars, cli, args, error, matched, ran, inProgress>>

RunOver == pc \in {"returned", "threw"}

\* The caller reads a box with get() once run() is over.
AfterGet ==
  /\ RunOver
  /\ \E a \in ArgNames :
       Called("get", a, JsUndefined, get(boxes, a)) /\ UNCHANGED <<pvars, cvars>>

\* The caller reads a box with isEmpty() once run() is over.
AfterIsEmpty ==
  /\ RunOver
  /\ \E a \in ArgNames :
       Called("isEmpty", a, JsUndefined, isEmpty(boxes, a)) /\ UNCHANGED <<pvars, cvars>>

CNext ==
  Dispatch \/ Settle \/ EndOfArgs \/ RunTask \/ TasksDone \/ AfterGet \/ AfterIsEmpty

SpecCLI == CInit /\ [][CNext]_vars

(***************************************************************************)
(* Properties of a parse pass                                              *)
(***************************************************************************)
\* run() is over and no token was given to the Arg named a.
Unmatched(a) == RunOver /\ matched[a] = 0

\* What get() and isEmpty() give on the box of an Arg whose runner never
\* ran, by builder.
Expected(runner) ==
  CASE runner = "string" ->
         [get |-> Throw("argument required"), isEmpty |-> Return(JsBool(TRUE))]
    [] runner = "strings" ->
         [get |-> Return(JsList(<<>>)), isEmpty |-> Return(JsBool(FALSE))]
    [] runner = "maybeString" ->
         [get |-> Return(JsBool(FALSE)), isEmpty |-> Return(JsBool(FALSE))]
    [] runner = "boolean" ->
         [get |-> Return(JsBool(FALSE)), isEmpty |-> Return(JsBool(FALSE))]
    [] runner = "count" ->
         [get |-> Return(JsNum(0)), isEmpty |-> Return(JsBool(FALSE))]

StandardBuilder(a) ==
  args[a].runner \in {"string", "strings", "maybeString", "boolean", "count"}

\* The box of the Arg named a resolves as its builder says: what get() and
\* isEmpty() give when called now, and what the last call gave if it read
\* that box.
ResolvesByBuilder(a) ==
  /\ get(boxes, a).ret = Expected(args[a].runner).get
  /\ isEmpty(boxes, a).ret = Expected(args[a].runner).isEmpty
  /\ (boxCall.op = "get" /\ boxCall.box = a)
       => boxCall.ret = Expected(args[a].runner).get
  /\ (boxCall.op = "isEmpty" /\ boxCall.box = a)
       => boxCall.ret = Expected(args[a].runner).isEmpty

\* C10: once run() is over, the box of an Arg that no token was given to
\* resolves by its builder: string -> get() throws "argument required" and
\* isEmpty() is true; strings -> get() returns the empty list; maybeString ->
\* false; boolean -> false; count -> 0.
C10_UnmatchedResolves ==
  \A a \in ArgNames : (Unmatched(a) /\ StandardBuilder(a)) => ResolvesByBuilder(a)

\* run() returned after tokens went to the rest Arg only, and get() on the
\* box of the string() Arg threw "argument required".
C10_Witness ==
  /\ pc = "returned"
  /\ args["opt"].runner = "string"
  /\ matched["opt"] = 0
  /\ matched["rest"] > 0
  /\ parser.i >= MaxIndex
  /\ boxCall = BoxCall("get", "opt", JsUndefined, Throw("argument required"))

\* The token under the cursor was written with an explicit "=" after it: a
\* long flag with a staged value, or a short flag whose buffer starts at "=".
ExplicitEq(p) ==
  \/ p.state = "value"
  \/ p.state = "dash" /\ CharAt0(p.buffer) = Str(Eq)

\* The text after that "=".
TextAfterEq(p) == IF p.state = "value" THEN p.buffer ELSE Slice(p.buffer, 1)

\* This step gives a token to the Arg on the triggers, defined by
\* maybeString(), for the first time.
FirstOptionalMatch ==
  /\ pc = "parsing"
  /\ args["opt"].runner = "maybeString"
  /\ matched'["opt"] = matched["opt"] + 1
  /\ boxes["opt"].state = "pending"

\* C11: a maybeString() Arg stores a string only when its trigger came with
\* an explicit "=", the text after it; matched without one it stores true and
\* leaves the parser where a plain advance past the trigger leaves it, the
\* text that follows being the next token(s).
C11_AsStated ==
  [][FirstOptionalMatch
     => IF ExplicitEq(parser)
        THEN boxes'["opt"].content = JsStr(TextAfterEq(parser))
        ELSE /\ boxes'["opt"].content = JsBool(TRUE)
             /\ \E ahead \in ArgvAheads(parser) : parser' = next(parser, ahead)]_vars

\* What holds instead: the rest of a short-flag cluster is taken as the value
\* too ("-aa" stores "a").
C11_ClusterRestIsValue ==
  [][FirstOptionalMatch
     => IF ExplicitEq(parser)
        THEN boxes'["opt"].content = JsStr(TextAfterEq(parser))
        ELSE IF parser.state = "dash"
        THEN boxes'["opt"].content = JsStr(parser.buffer)
        ELSE /\ boxes'["opt"].content = JsBool(TRUE)
             /\ \E ahead \in ArgvAheads(parser) : parser' = next(parser, ahead)]_vars

\* This step gives a token to the Arg named a, defined by boolean().
ToggleMatch(a) ==
  /\ pc = "parsing"
  /\ args[a].runner = "boolean"
  /\ matched'[a] = matched[a] + 1

\* Every match sets the box to true, and none throws.
EveryMatchSets ==
  \A a \in ArgNames :
    ToggleMatch(a)
      => /\ boxes'[a].state = "filled"
         /\ boxes'[a].content = JsBool(TRUE)
         /\ pc' = "parsing"

\* The first match sets the box to true; a further match throws "duplicate
\* argument", which ends the pass, and leaves the boxes as they were.
FirstMatchSets ==
  \A a \in ArgNames :
    ToggleMatch(a)
      => IF boxes[a].state = "filled"
         THEN /\ pc' = "threw"
              /\ error' = "duplicate argument"
              /\ boxes' = boxes
         ELSE /\ boxes'[a].state = "filled"
              /\ boxes'[a].content = JsBool(TRUE)
              /\ pc' = "parsing"

\* Once run() is over, the box of a boolean() Arg holds true if a token was
\* given to the Arg and false otherwise.
ToggleTellsPresence ==
  \A a \in ArgNames :
    (RunOver /\ args[a].runner = "boolean")
      => get(boxes, a).ret = Return(JsBool(matched[a] > 0))

\* run() returns only if the token was given to a boolean() Arg at most once.
ToggleOnce ==
  \A a \in ArgNames :
    (pc = "returned" /\ args[a].runner = "boolean") => matched[a] <= 1

\* C12 as stated: every match of the trigger of a boolean() Arg sets its box
\* to true, however many there are, and after the pass the box holds true if
\* there was a match and false otherwise.
C12_AsStated == []ToggleTellsPresence /\ [][EveryMatchSets]_vars

\* C12: the first match of the trigger of a boolean() Arg sets its box to
\* true and a further match throws "duplicate argument", ending the pass with
\* the box still true; after the pass the box holds true if there was a match
\* and false otherwise, and a pass that returned had at most one.
C12_ToggleOnce == [](ToggleTellsPresence /\ ToggleOnce) /\ [][FirstMatchSets]_vars

\* The trigger was matched twice, the second match threw, and get() on the
\* box gave true afterwards.
C12_Witness ==
  /\ pc = "threw"
  /\ error = "duplicate argument"
  /\ args["opt"].runner = "boolean"
  /\ matched["opt"] = 2
  /\ boxCall = BoxCall("get", "opt", JsUndefined, Return(JsBool(TRUE)))

\* C16: the tasks registered through do run only once the loop over the
\* tokens is over, the parser at the end of the arguments, each once and in
\* the order they were registered, with no token dispatched after the first
\* of them; once a parse pass has thrown, no token is dispatched, no task is
\* registered and no task runs.
C16_TasksAfterParsing ==
  /\ [](/\ \A i \in 1..Len(ran) : ran[i] = cli.tasks[i] /\ ran[i].nth = i
        /\ Len(ran) <= Len(cli.tasks)
        /\ ran # <<>> => pc \in {"tasks", "returned"}
        /\ pc \in {"tasks", "returned"} => ~parser.current.def
        /\ pc = "returned" => ran = cli.tasks
        /\ pc = "threw" => ran = <<>> /\ error # "")
  /\ [][/\ pc # "parsing" => UNCHANGED <<parser, matched, cli>>
        /\ pc \notin {"parsing", "awaiting"} => UNCHANGED error
        /\ pc = "threw" => UNCHANGED <<pc, ran>>
        /\ ran' # ran => /\ pc = "tasks"
                          /\ ran' = Append(ran, cli.tasks[Len(ran) + 1])]_vars

\* Two tasks were registered in a pass that ended without error, and both
\* have run, in that order.
C16_Witness ==
  /\ pc = "returned"
  /\ ran = <<[by |-> "opt", nth |-> 1], [by |-> "opt", nth |-> 2]>>
  /\ matched["opt"] = 2

\* The step advances the parser outside of the iteration that starts a
\* runner.
AdvancesWhileInProgress == inProgress > 0 /\ parser' # parser

\* C17: the loop waits for the runner of each token, a runner that gives a
\* promise too, before it reads the next token: at most one runner is in
\* progress at any time, the loop is waiting whenever one is, and from the
\* step that called it to the step its promise settles in, the parser, the
\* match counts and the boxes stay as the runner left them when it gave the
\* promise.
C17_AwaitsEachRunner ==
  /\ [](/\ inProgress <= 1
        /\ inProgress = 1 <=> pc = "awaiting")
  /\ [][/\ ~AdvancesWhileInProgress
        /\ inProgress > 0 => /\ UNCHANGED <<parser, matched, boxes, cli>>
                              /\ inProgress' = inProgress - 1
                              /\ pc' \in {"parsing", "threw"}]_vars

\* The async runner of the trigger was called with the value of "-a=a", its
\* promise was fulfilled, and its runner was called again for a second
\* token: the loop is waiting for it, the parser at the end of the arguments.
C17_Witness ==
  /\ pc = "awaiting"
  /\ inProgress = 1
  /\ args["opt"].runner = "acceptValue"
  /\ matched["opt"] = 2
  /\ ~parser.current.def

\* A parser as a call leaves it: a staged buffer goes with a current token.
WellFormed(p) ==
  /\ p.state \in {"default", "dash", "value"}
  /\ p.state = "default" => p.buffer = <<>>
  /\ p.state # "default" => p.current.def
  /\ ~(p.isFlag /\ p.isValue)
  /\ isDone(p) => ~p.isFlag /\ ~p.isValue

\* What is left to show of the raw argument under the cursor.
Staged(p) == Len(p.buffer) + (IF p.state = "default" THEN 0 ELSE 1)

\* The step is a call of next() or of nextValue().
Advance == last'.op \in {"next", "nextValue"} /\ calls' = calls + 1

\* C18: next() and nextValue() never throw and leave a well-formed parser;
\* each call made before the end either moves the cursor to the next raw
\* argument or shows one more token of the one under it, of which less is
\* left; the calls made when the parser first is done are at most the
\* number of raw arguments plus the number of their characters; and a
\* parser that is done stays done under every further call.
C18_TotalAndFinite ==
  /\ [](/\ WellFormed(parser)
        /\ last.op \in {"next", "nextValue"} => ~last.ret.threw
        /\ ~isDone(parser) => calls <= parser.i + used)
  /\ [][/\ Advance /\ ~isDone(parser)
             => \/ parser'.i > parser.i
                \/ parser'.i = parser.i /\ Staged(parser') < Staged(parser)
        /\ ~isDone(parser) /\ isDone(parser') => calls' <= parser'.i + used'
        /\ isDone(parser) => /\ isDone(parser')
                              /\ used' = used
                              /\ Advance => parser'.i = parser.i + 1]_vars

\* The arguments held three characters and were done after two calls; a
\* third call, of nextValue(), left the parser done.
C18_Witness ==
  /\ isDone(parser)
  /\ last.op = "nextValue"
  /\ calls = 3
  /\ used = 3
  /\ parser.i = 2

\* A raw argument that starts with one dash and not with two.
SingleDashForm(s) == Len(s) >= 1 /\ s[1] = "-" /\ ~StartsWith(s, DashDash)

\* ... with a character after the dash that is not "=".
FlagFirstForm(s) == SingleDashForm(s) /\ Len(s) >= 2 /\ s[2] # "="

\* "-" followed by the first character after the dash, if there is one.
DashAndFirst(s) == IF Len(s) >= 2 THEN <<"-", s[2]>> ELSE <<"-">>

\* The cursor has just landed on a raw argument of the form Form, reached
\* outside rest mode.
LandedOn(Form(_)) == arg.def /\ Form(arg.s) /\ ~parser.isRest /\ Len(emitted) = 1

\* The cursor is on the flag "-" and the first character after the dash of
\* the raw argument, with what follows that character staged.
OnFirstFlag ==
  /\ Tok(parser) = FlagToken(DashAndFirst(arg.s))
  /\ emitted = <<Tok(parser)>>
  /\ parser.buffer = Slice(arg.s, 2)
  /\ parser.state = IF Len(arg.s) > 2 THEN "dash" ELSE "default"

\* C19 as stated: on every raw argument that starts with one dash and not
\* with two, reached outside rest mode, "-" and "-=..." included, the cursor
\* lands on a flag whose text is "-" and the first character after the
\* dash, with the rest of the argument staged.
C19_AsStated == LandedOn(SingleDashForm) => OnFirstFlag

\* The same for the raw arguments that hold a character other than "="
\* after the dash.
C19_FlagFirst == LandedOn(FlagFirstForm) => OnFirstFlag

\* The parser is on a short flag with more of its cluster staged, no "="
\* in front.
Unpeeled(p) == p.state = "dash" /\ CharAt0(p.buffer) # Str(Eq)

\* The states the statement lists: a token with nothing staged (a plain
\* token, a long flag, a rest token, the last flag of a cluster, a value,
\* the end of the arguments), a long flag with its value staged, a short
\* flag with "=" and its value staged.
ListedState(p) ==
  \/ p.state = "default" /\ p.buffer = <<>>
  \/ p.state = "value" /\ p.isFlag /\ StartsWith(p.current.s, DashDash)
  \/ p.state = "dash" /\ p.isFlag /\ CharAt0(p.buffer) = Str(Eq)

\* C20: in every reachable state of the parser but those on a short flag
\* with more of its cluster staged, which are the states listed, nextValue()
\* leaves the parser exactly as next() does, over every continuation of the
\* arguments, and a call of nextValue() made there does not throw.
C20_NextValueIsNext ==
  /\ [](~Unpeeled(parser)
          => /\ ListedState(parser)
             /\ \A ahead \in Aheads(parser) :
                  nextValue(parser, ahead) = next(parser, ahead))
  /\ [][last'.op = "nextValue" /\ calls' = calls + 1 /\ ~Unpeeled(parser)
          => /\ ~last'.ret.threw
             /\ \E ahead \in Aheads(parser) : parser' = next(parser, ahead)]_vars

\* nextValue() was called on the flag -a of -a=a, with "=a" staged, and the
\* cursor is on the value a, as after next().
C20_Witness ==
  /\ last.op = "nextValue"
  /\ arg = Str(<<"-", "a", "=", "a">>)
  /\ emitted = <<FlagToken(<<"-", "a">>), ValueToken(<<"a">>)>>
  /\ parser.state = "default"

\* The characters a token text is made of: those of the raw arguments and
\* those of String(undefined).
TextChars == Chars \cup {UndefinedText[k] : k \in 1..Len(UndefinedText)}

\* current is a string.
IsString(v) == v.def /\ v.s \in Seq(TextChars)

\* C21: after any sequence of next(), nextValue(), readValue() and
\* readOptionalValue() calls, isFlag and isValue are not both true; both are
\* false when isRest is true, and both are false when isDone is true; and
\* when isDone is false the current token is a string.
C21_TokenFlags ==
  /\ ~(parser.isFlag /\ parser.isValue)
  /\ parser.isRest => ~parser.isFlag /\ ~parser.isValue
  /\ isDone(parser) => ~parser.isFlag /\ ~parser.isValue /\ parser.current = Undefined
  /\ ~isDone(parser) => IsString(parser.current)

\* In the rest region the cursor is on -a, reached by a readValue() that
\* returned the token before it: -a is neither a flag nor a value there.
C21_Witness ==
  /\ parser.isRest
  /\ parser.current = Str(<<"-", "a">>)
  /\ ~parser.isFlag
  /\ ~parser.isValue
  /\ last.op = "readValue"
  /\ ~last.ret.threw
  /\ calls >= 2

\* The step is an iteration of the loop of processArgUntilError.
Iteration == pc = "parsing" /\ (matched' # matched \/ pc' = "threw")

\* The iteration consumed a token or raised an error.
ConsumesOrRaises == parser' # parser \/ pc' = "threw"

\* The rest Arg is built with a builder whose runner reads a value.
RestReadsValue == args["rest"].runner \in {"string", "strings"}

\* C22 as stated: when the trigger's Arg and the rest Arg are each built
\* with one of the five standard builders, every iteration of the loop
\* consumes at least one token or raises an error.
C22_AsStated ==
  [][(Iteration /\ \A a \in ArgNames : StandardBuilder(a)) => ConsumesOrRaises]_vars

\* What holds: the same when the rest Arg is built with string() or
\* strings(), whose runners read the token they are given.
C22_RestReadsValue ==
  [][(/\ Iteration
      /\ StandardBuilder("opt")
      /\ RestReadsValue) => ConsumesOrRaises]_vars

\* The loop is on the positional it started on, which it has given to the
\* rest Arg, built with count(), MaxCount times without an error.
C22_SameTokenAgain ==
  /\ pc = "parsing"
  /\ args["rest"].runner = "count"
  /\ matched["rest"] = MaxCount
  /\ matched["opt"] = 0
  /\ parser = construct(<<<<"a">>>>)
  /\ boxes["rest"].content = JsNum(MaxCount)

====
